---- MODULE Spec2Model ----
(***************************************************************************)
(* A model of the Mem0 memory store (class Memory, class SimpleEmbedding,  *)
(* class Mem0).  Text is a sequence of one-character strings, a token is a *)
(* sequence of characters, an embedding is a sparse vector of exact        *)
(* fractions, and the Map of memories is a sequence of records in          *)
(* insertion order.  The clock counts days; an ISO-8601 string is the      *)
(* record [valid, t]: toISOString of day t is [valid |-> TRUE, t |-> t],   *)
(* and a string Date cannot parse has valid = FALSE.                       *)
(***************************************************************************)
EXTENDS Integers, Sequences, FiniteSets, TLC

VARIABLES memories, config, nextId, now, timerOn, last, issued, imported, pending

vars == <<memories, config, nextId, now, timerOn, last, issued, imported, pending>>

(***************************************************************************)
(* Bounds of the model.                                                    *)
(***************************************************************************)
MaxId == 3
MaxTime == 2

(***************************************************************************)
(* Program constants.                                                      *)
(***************************************************************************)
DefaultMaxMemories == 1000
DefaultThresholdNum == 7
DefaultThresholdDen == 10
DefaultExpireAfterDays == 30
FirstId == 1

(***************************************************************************)
(* Inputs.                                                                 *)
(***************************************************************************)
TextAb == <<"A", " ", "b">>
TextAabc == <<"a", " ", "a", " ", " ", "b", " ", "c", "!">>
TextC == <<"c">>
TextBlank == <<" ">>

Contents == {TextAb, TextAabc, TextC, TextBlank}

InvalidDate == [valid |-> FALSE, t |-> 0]
ToISOString(t) == [valid |-> TRUE, t |-> t]
EarlyDate == ToISOString(0)

NoMeta == [k \in {} |-> 0]
BadTimeMeta == [timestamp |-> InvalidDate]
EarlyFoodMeta == [timestamp |-> EarlyDate, tags |-> <<"food">>]

\* the calls add(content, metadata) and update(id, content, metadata) are made with
AddInputs ==
    { <<TextAb, NoMeta>>, <<TextAabc, EarlyFoodMeta>>, <<TextC, NoMeta>> }

UpdateInputs == { <<TextC, EarlyFoodMeta>> }

\* the calls search(query, limit) are made with
SearchInputs == { <<TextAabc, 1>>, <<TextAabc, 2>>, <<TextBlank, 1>> }

\* calls whose metadata carries a timestamp that Date cannot parse
BadTimeAddInputs == { <<TextAb, NoMeta>>, <<TextC, BadTimeMeta>>, <<TextBlank, BadTimeMeta>> }

\* calls of add whose metadata carries tags, and the calls
\* searchByTags(tags, matchAll)
FoodItalianMeta == [tags |-> <<"food", "italian">>]
FoodMeta == [tags |-> <<"food">>]

TagAddInputs ==
    { <<TextAb, FoodItalianMeta>>, <<TextC, FoodMeta>>, <<TextBlank, NoMeta>> }

TagLists == { <<"food">>, <<"food", "drinks">>, <<"italian", "drinks">>, <<>> }

(***************************************************************************)
(* Small helpers.                                                          *)
(***************************************************************************)
HasKey(obj, k) == k \in DOMAIN obj

\* { ...a, ...b }: the keys of b win.
Spread(a, b) == [k \in DOMAIN a \cup DOMAIN b |-> IF k \in DOMAIN b THEN b[k] ELSE a[k]]

RECURSIVE Gcd(_, _)
Gcd(a, b) == IF b = 0 THEN a ELSE Gcd(b, a % b)

RECURSIVE SetGcd(_)
SetGcd(S) ==
    IF S = {} THEN 0
    ELSE LET x == CHOOSE y \in S : TRUE IN Gcd(x, SetGcd(S \ {x}))

RECURSIVE SetMax(_)
SetMax(S) ==
    LET x == CHOOSE y \in S : TRUE
    IN IF S = {x} THEN x
       ELSE LET r == SetMax(S \ {x}) IN IF x > r THEN x ELSE r

RECURSIVE SetSum(_, _)
SetSum(S, f) ==
    IF S = {} THEN 0
    ELSE LET x == CHOOSE y \in S : TRUE IN f[x] + SetSum(S \ {x}, f)

(***************************************************************************)
(* SimpleEmbedding.tokenize                                                *)
(***************************************************************************)
ToLowerCase(ch) == IF ch = "A" THEN "a" ELSE ch

IsWordChar(ch) == ch \in {"a", "b", "c", "d", "e", "A"}
IsSpace(ch) == ch = " "

\* .replace(/[^\w\s]/g, '')
StripPunct(text) == SelectSeq(text, LAMBDA ch : IsWordChar(ch) \/ IsSpace(ch))

\* .split(/\s+/).filter(word => word.length > 0)
RECURSIVE SplitWords(_, _)
SplitWords(text, cur) ==
    IF text = <<>> THEN (IF cur = <<>> THEN <<>> ELSE <<cur>>)
    ELSE IF IsSpace(Head(text))
         THEN (IF cur = <<>> THEN <<>> ELSE <<cur>>) \o SplitWords(Tail(text), <<>>)
         ELSE SplitWords(Tail(text), Append(cur, Head(text)))

tokenize(text) ==
    SplitWords(StripPunct([i \in 1..Len(text) |-> ToLowerCase(text[i])]), <<>>)

(***************************************************************************)
(* SimpleEmbedding.computeEmbedding: token -> freq / maxFreq, kept as the  *)
(* integer numerators w over the common denominator m, in lowest terms.    *)
(***************************************************************************)
TokenFreq(tokens) ==
    [tok \in {tokens[i] : i \in 1..Len(tokens)} |->
        Cardinality({i \in 1..Len(tokens) : tokens[i] = tok})]

computeEmbedding(text) ==
    LET freq == TokenFreq(tokenize(text))
        counts == {freq[tok] : tok \in DOMAIN freq}
    IN IF DOMAIN freq = {} THEN [w |-> freq, m |-> 1]
       ELSE LET g == SetGcd(counts)
            IN [w |-> [tok \in DOMAIN freq |-> freq[tok] \div g],
                m |-> SetMax(counts) \div g]

\* computeEmbedding on the texts of the model, evaluated once
EmbeddingOf == [text \in Contents |-> computeEmbedding(text)]

Embed(text) == EmbeddingOf[text]

(***************************************************************************)
(* SimpleEmbedding.cosineSimilarity.  The result dot/(sqrt(n1)*sqrt(n2))   *)
(* is kept as the exact pair [dot, nn] standing for dot/sqrt(nn); the      *)
(* common denominators m cancel.  A null embedding makes Object.keys       *)
(* throw, which the caller tests with IsNullEmbedding.                     *)
(***************************************************************************)
ZeroSimilarity == [dot |-> 0, nn |-> 1]

cosineSimilarity(embedding1, embedding2) ==
    LET keys1 == DOMAIN embedding1.w
        keys2 == DOMAIN embedding2.w
        allKeys == keys1 \cup keys2
        val1 == [k \in allKeys |-> IF k \in keys1 THEN embedding1.w[k] ELSE 0]
        val2 == [k \in allKeys |-> IF k \in keys2 THEN embedding2.w[k] ELSE 0]
        dotProduct == SetSum(allKeys, [k \in allKeys |-> val1[k] * val2[k]])
        norm1 == SetSum(allKeys, [k \in allKeys |-> val1[k] * val1[k]])
        norm2 == SetSum(allKeys, [k \in allKeys |-> val2[k] * val2[k]])
    IN IF norm1 = 0 \/ norm2 = 0 THEN ZeroSimilarity
       ELSE [dot |-> dotProduct, nn |-> norm1 * norm2]

\* a > b for two similarities
SimGreater(a, b) == a.dot * a.dot * b.nn > b.dot * b.dot * a.nn

SimPositive(a) == a.dot > 0

\* similarity > threshold, the threshold being the fraction num/den
SimAbove(a, threshold) ==
    a.dot * a.dot * threshold.den * threshold.den > threshold.num * threshold.num * a.nn

(***************************************************************************)
(* class Memory                                                            *)
(***************************************************************************)
NullEmbedding == [isNull |-> TRUE]
IsNullEmbedding(e) == ~HasKey(e, "w")

\* metadata.tags || []
TagsOrEmpty(obj) == IF HasKey(obj, "tags") THEN obj.tags ELSE <<>>

\* new Memory(id, content, metadata) at clock value t
MemoryCtor(id, content, metadata, t) ==
    [id |-> id,
     content |-> content,
     metadata |-> Spread([timestamp |-> ToISOString(t)], metadata),
     embeddings |-> NullEmbedding,
     tags |-> TagsOrEmpty(metadata)]

\* memory.updateContent(newContent) at clock value t
updateContent(memory, newContent, t) ==
    [memory EXCEPT !.content = newContent,
                   !.metadata = Spread(memory.metadata, [lastUpdated |-> ToISOString(t)]),
                   !.embeddings = NullEmbedding]

(***************************************************************************)
(* The Map this.memories: a sequence of Memory records in insertion order, *)
(* keyed by the record's id.                                               *)
(***************************************************************************)
Ids(ms) == {ms[i].id : i \in 1..Len(ms)}

IndexOf(ms, id) == CHOOSE i \in 1..Len(ms) : ms[i].id = id

\* Map.get
MapGet(ms, id) == ms[IndexOf(ms, id)]

\* Map.set: an existing key keeps its place, a new key goes last
MapSet(ms, id, memory) ==
    IF id \in Ids(ms) THEN [ms EXCEPT ![IndexOf(ms, id)] = memory]
    ELSE Append(ms, memory)

\* a delete that removes the first entry whatever its key
MapDeleteFirst(ms, id) == IF id \in Ids(ms) THEN Tail(ms) ELSE ms

\* Map.delete
MapDelete(ms, id) == SelectSeq(ms, LAMBDA mem : mem.id # id)

\* Mem0.get: this.memories.get(id) || null
Null == [isNull |-> TRUE]
get(ms, id) == IF id \in Ids(ms) THEN MapGet(ms, id) ELSE Null

(***************************************************************************)
(* new Date(isoString): getTime() is NaN for a string that does not parse; *)
(* every comparison with NaN is false.                                     *)
(***************************************************************************)
DateParse(iso) == [nan |-> ~iso.valid, ms |-> iso.t]

DateLess(a, b) == ~a.nan /\ ~b.nan /\ a.ms < b.ms

(***************************************************************************)
(* Mem0.search / Mem0.findSimilar                                          *)
(***************************************************************************)
\* the for loop of search: the records scoring above 0, in Map order
Scored(ms, queryEmbedding) ==
    LET similarity == [i \in 1..Len(ms) |->
                          cosineSimilarity(queryEmbedding, ms[i].embeddings)]
        results[i \in 0..Len(ms)] ==
            IF i = 0 THEN <<>>
            ELSE IF SimPositive(similarity[i])
                 THEN Append(results[i - 1],
                             [id |-> ms[i].id, similarity |-> similarity[i]])
                 ELSE results[i - 1]
    IN results[Len(ms)]

\* results.sort((a, b) => b.similarity - a.similarity): stable, descending
RECURSIVE InsertDesc(_, _)
InsertDesc(sorted, r) ==
    IF sorted = <<>> THEN <<r>>
    ELSE IF SimGreater(r.similarity, Head(sorted).similarity)
         THEN <<r>> \o sorted
         ELSE <<Head(sorted)>> \o InsertDesc(Tail(sorted), r)

RECURSIVE SortDesc(_)
SortDesc(results) ==
    IF results = <<>> THEN <<>>
    ELSE InsertDesc(SortDesc(SubSeq(results, 1, Len(results) - 1)), results[Len(results)])

\* .slice(0, limit)
Slice(results, limit) ==
    SubSeq(results, 1, IF Len(results) < limit THEN Len(results) ELSE limit)

\* cosineSimilarity(queryEmbedding, memory.embeddings) throws a TypeError
\* on the first record whose embeddings are null
SearchThrows(ms) == \E i \in 1..Len(ms) : IsNullEmbedding(ms[i].embeddings)

search(ms, query, limit) ==
    Slice(SortDesc(Scored(ms, Embed(query))), limit)

findSimilar(ms, content, limit) == search(ms, content, limit)

(***************************************************************************)
(* Mem0.searchByTags                                                       *)
(***************************************************************************)
\* memoryTags.includes(tag)
Includes(memoryTags, tag) == \E k \in 1..Len(memoryTags) : memoryTags[k] = tag

\* a tag search that takes every call as matchAll = false
searchByTagsAny(ms, tags, matchAll) ==
    SelectSeq(ms, LAMBDA memory : \E k \in 1..Len(tags) : Includes(memory.tags, tags[k]))

searchByTags(ms, tags, matchAll) ==
    LET matches(memory) ==
            IF matchAll
            THEN \A k \in 1..Len(tags) : Includes(memory.tags, tags[k])
            ELSE \E k \in 1..Len(tags) : Includes(memory.tags, tags[k])
    IN SelectSeq(ms, LAMBDA memory : matches(memory))

(***************************************************************************)
(* Mem0.evictOldest                                                        *)
(***************************************************************************)
\* the for loop: oldestTime starts at Infinity, a strictly smaller time wins
OldestIndex(ms) ==
    LET step[i \in 0..Len(ms)] ==
            IF i = 0 THEN 0
            ELSE LET time == DateParse(ms[i].metadata.timestamp)
                     best == step[i - 1]
                 IN IF time.nan THEN best
                    ELSE IF best = 0 THEN i
                    ELSE IF DateLess(time, DateParse(ms[best].metadata.timestamp))
                         THEN i
                         ELSE best
    IN step[Len(ms)]

evictOldest(ms) ==
    IF OldestIndex(ms) = 0 THEN ms
    ELSE MapDelete(ms, ms[OldestIndex(ms)].id)

(***************************************************************************)
(* Mem0.cleanupExpired                                                     *)
(***************************************************************************)
\* a sweep that also deletes a record whose timestamp is the cutoff itself
cleanupExpiredInclusive(ms, cfg, t) ==
    IF ~cfg.autoExpire THEN ms
    ELSE LET cutoffDate == [nan |-> FALSE, ms |-> t - cfg.expireAfterDays + 1]
         IN SelectSeq(ms, LAMBDA mem :
                ~DateLess(DateParse(mem.metadata.timestamp), cutoffDate))

cleanupExpired(ms, cfg, t) ==
    IF ~cfg.autoExpire THEN ms
    ELSE LET cutoffDate == [nan |-> FALSE, ms |-> t - cfg.expireAfterDays]
         IN SelectSeq(ms, LAMBDA mem :
                ~DateLess(DateParse(mem.metadata.timestamp), cutoffDate))

(***************************************************************************)
(* Mem0.constructor                                                        *)
(***************************************************************************)
\* config.x || default
OrDefault(obj, k, default) == IF HasKey(obj, k) THEN obj[k] ELSE default

Mem0Config(userConfig) ==
    [maxMemories |-> OrDefault(userConfig, "maxMemories", DefaultMaxMemories),
     similarityThreshold |->
        OrDefault(userConfig, "similarityThreshold",
                  [num |-> DefaultThresholdNum, den |-> DefaultThresholdDen]),
     autoExpire |-> OrDefault(userConfig, "autoExpire", FALSE),
     expireAfterDays |-> OrDefault(userConfig, "expireAfterDays", DefaultExpireAfterDays)]

UserConfigs ==
    { [maxMemories |-> 1, autoExpire |-> TRUE, expireAfterDays |-> 1],
      [maxMemories |-> 2] }

(***************************************************************************)
(* Mem0.add, as a function of the store: the new collection, the new       *)
(* counter, the returned id, whether it threw, whether it merged.          *)
(***************************************************************************)
\* a merge that also takes the tags of the metadata it is given
MergeIntoWithTags(existingMemory, content, metadata, t) ==
    LET updated == updateContent(existingMemory, content, t)
    IN [updated EXCEPT !.metadata = Spread(updated.metadata, metadata),
                       !.tags = IF HasKey(metadata, "tags") THEN metadata.tags ELSE @]

\* the merge branch: similar[0].memory updated in place
MergeInto(existingMemory, content, metadata, t) ==
    LET updated == updateContent(existingMemory, content, t)
    IN [updated EXCEPT !.metadata = Spread(updated.metadata, metadata)]

\* this.memories.set(id, memory) followed by the limit check
InsertNew(ms, memory, cfg) ==
    LET added == MapSet(ms, memory.id, memory)
    IN IF Len(added) > cfg.maxMemories THEN evictOldest(added) ELSE added

\* a counter that is read but not advanced
AllocateIdWithoutIncrement(nid) == [id |-> nid, nextId |-> nid]

\* const id = `mem_${this.nextId++}`
AllocateId(nid) == [id |-> nid, nextId |-> nid + 1]

\* similar.length > 0 && similar[0].similarity > this.config.similarityThreshold
IsDuplicate(similar, cfg) ==
    Len(similar) > 0 /\ SimAbove(similar[1].similarity, cfg.similarityThreshold)

AddOutcome(ms, cfg, nid, content, metadata, t) ==
    LET alloc == AllocateId(nid)
        memory == [MemoryCtor(alloc.id, content, metadata, t)
                      EXCEPT !.embeddings = Embed(content)]
    IN IF SearchThrows(ms)
       THEN [memories |-> ms, nextId |-> alloc.nextId, ret |-> 0,
             threw |-> TRUE, merged |-> FALSE]
       ELSE LET similar == findSimilar(ms, content, 1)
            IN IF IsDuplicate(similar, cfg)
               THEN LET existingMemory == MapGet(ms, similar[1].id)
                    IN [memories |-> MapSet(ms, existingMemory.id,
                                            MergeInto(existingMemory, content, metadata, t)),
                        nextId |-> alloc.nextId, ret |-> existingMemory.id,
                        threw |-> FALSE, merged |-> TRUE]
               ELSE [memories |-> InsertNew(ms, memory, cfg),
                     nextId |-> alloc.nextId, ret |-> alloc.id,
                     threw |-> FALSE, merged |-> FALSE]

(***************************************************************************)
(* Mem0.update on a present id                                             *)
(***************************************************************************)
\* an update that also takes the tags of the metadata it is given
UpdateMemoryWithTags(memory, content, metadata, t) ==
    LET updated == updateContent(memory, content, t)
    IN [updated EXCEPT !.metadata = Spread(updated.metadata, metadata),
                       !.embeddings = Embed(content),
                       !.tags = TagsOrEmpty(metadata)]

UpdateMemory(memory, content, metadata, t) ==
    LET updated == updateContent(memory, content, t)
    IN [updated EXCEPT !.metadata = Spread(updated.metadata, metadata),
                       !.embeddings = Embed(content)]

(***************************************************************************)
(* Mem0.export / Mem0.import.  A JSON text is [kind, data]: kind "garbage" *)
(* does not parse; kind "json" parses to the object data, whose memories   *)
(* are the pairs <<id, recordData>>.                                       *)
(***************************************************************************)
Garbage == [kind |-> "garbage"]

\* a text that parses but has no memories
NoMemoriesDoc ==
    [kind |-> "json", data |-> [config |-> [maxMemories |-> 1], nextId |-> 3]]

\* Array.from(this.memories.entries())
Entries(ms) == [i \in 1..Len(ms) |-> <<ms[i].id, ms[i]>>]

export(ms, cfg, nid, t) ==
    [kind |-> "json",
     data |-> [memories |-> Entries(ms), config |-> cfg, nextId |-> nid,
               exportDate |-> ToISOString(t)]]

\* what export returned on day 1 for new Mem0({maxMemories: 2}) after add("A b")
SavedDoc ==
    LET cfg == Mem0Config([maxMemories |-> 2])
        out == AddOutcome(<<>>, cfg, FirstId, TextAb, NoMeta, 1)
    IN export(out.memories, cfg, out.nextId, 1)

\* an import that leaves the tags the constructor took from the metadata
ImportEntryWithoutTags(entry, t) ==
    LET memoryData == entry[2]
        memory == MemoryCtor(memoryData.id, memoryData.content, memoryData.metadata, t)
    IN [memory EXCEPT !.embeddings = memoryData.embeddings]

\* the body of the for loop of import
ImportEntry(entry, t) ==
    LET memoryData == entry[2]
        memory == MemoryCtor(memoryData.id, memoryData.content, memoryData.metadata, t)
    IN [memory EXCEPT !.embeddings = memoryData.embeddings,
                      !.tags = TagsOrEmpty(memoryData)]

RECURSIVE ImportEntries(_, _, _)
ImportEntries(acc, entries, t) ==
    IF entries = <<>> THEN acc
    ELSE ImportEntries(MapSet(acc, Head(entries)[1], ImportEntry(Head(entries), t)),
                       Tail(entries), t)

\* data.nextId || 1
ImportedNextId(data) ==
    IF HasKey(data, "nextId") /\ data.nextId # 0 THEN data.nextId ELSE FirstId

\* { ...this.config, ...data.config }
ImportedConfig(cfg, data) ==
    IF HasKey(data, "config") THEN Spread(cfg, data.config) ELSE cfg

ImportOutcome(ms, cfg, nid, jsonData, t) ==
    IF jsonData.kind # "json"
    THEN [memories |-> ms, config |-> cfg, nextId |-> nid, ret |-> FALSE]
    ELSE LET data == jsonData.data
         IN IF ~HasKey(data, "memories")
            THEN [memories |-> <<>>, config |-> ImportedConfig(cfg, data),
                  nextId |-> ImportedNextId(data), ret |-> FALSE]
            ELSE [memories |-> ImportEntries(<<>>, data.memories, t),
                  config |-> ImportedConfig(cfg, data),
                  nextId |-> ImportedNextId(data), ret |-> TRUE]

(***************************************************************************)
(* The state machine.  last records the latest call: its name, what it     *)
(* returned, whether it threw, and for add whether it merged.  issued and  *)
(* imported are history: the ids given to created records, and whether     *)
(* import was called, since the store was constructed or last cleared.     *)
(* pending is the call of add that is on the stack, for the specification  *)
(* that takes add statement by statement.                                  *)
(***************************************************************************)
\* no call is on the stack
NoCall ==
    [pc |-> "idle", before |-> <<>>, nid |-> 0, content |-> <<>>,
     metadata |-> [k \in {} |-> 0], memory |-> [id |-> 0], similar |-> <<>>]

Call(op, ret, threw, merged) == [op |-> op, ret |-> ret, threw |-> threw, merged |-> merged]

Init ==
    /\ memories = <<>>
    /\ \E userConfig \in UserConfigs : config = Mem0Config(userConfig)
    /\ nextId = FirstId
    /\ now = 1
    /\ timerOn = config.autoExpire
    /\ last = Call("new", 0, FALSE, FALSE)
    /\ issued = {}
    /\ imported = FALSE
    /\ pending = NoCall

\* the wall clock advances between calls
Tick ==
    /\ now < MaxTime
    /\ now' = now + 1
    /\ UNCHANGED <<memories, config, nextId, timerOn, last>>

Add(content, metadata) ==
    /\ nextId <= MaxId
    /\ LET out == AddOutcome(memories, config, nextId, content, metadata, now)
       IN /\ memories' = out.memories
          /\ nextId' = out.nextId
          /\ last' = Call("add", out.ret, out.threw, out.merged)
    /\ UNCHANGED <<config, now, timerOn>>

Update(id, content, metadata) ==
    /\ IF id \in Ids(memories)
       THEN /\ memories' = MapSet(memories, id,
                                  UpdateMemory(MapGet(memories, id), content, metadata, now))
            /\ last' = Call("update", id, FALSE, FALSE)
       ELSE /\ memories' = memories
            /\ last' = Call("update", id, TRUE, FALSE)
    /\ UNCHANGED <<config, nextId, now, timerOn>>

Delete(id) ==
    /\ memories' = MapDelete(memories, id)
    /\ last' = Call("delete", id \in Ids(memories), FALSE, FALSE)
    /\ UNCHANGED <<config, nextId, now, timerOn>>

Search(query, limit) ==
    /\ last' = IF SearchThrows(memories)
               THEN Call("search", <<>>, TRUE, FALSE)
               ELSE Call("search", search(memories, query, limit), FALSE, FALSE)
    /\ UNCHANGED <<memories, config, nextId, now, timerOn>>

\* a clear that resets the counter and keeps the collection
ClearKeepsRecords ==
    /\ memories' = memories
    /\ nextId' = FirstId
    /\ last' = Call("clear", 0, FALSE, FALSE)
    /\ UNCHANGED <<config, now, timerOn>>

Clear ==
    /\ memories' = <<>>
    /\ nextId' = FirstId
    /\ last' = Call("clear", 0, FALSE, FALSE)
    /\ UNCHANGED <<config, now, timerOn>>

Export ==
    /\ last' = Call("export", export(memories, config, nextId, now), FALSE, FALSE)
    /\ UNCHANGED <<memories, config, nextId, now, timerOn>>

\* import is called with a text that does not parse, with one that lacks the
\* memories, with an export kept from an earlier store, or with the text the
\* latest call to export returned
ImportInputs ==
    {Garbage, NoMemoriesDoc, SavedDoc} \cup (IF last.op = "export" THEN {last.ret} ELSE {})

Import(jsonData) ==
    /\ LET out == ImportOutcome(memories, config, nextId, jsonData, now)
       IN /\ memories' = out.memories
          /\ config' = out.config
          /\ nextId' = out.nextId
          /\ last' = Call("import", out.ret, FALSE, FALSE)
    /\ UNCHANGED <<now, timerOn>>

\* cleanupExpired called directly
Sweep ==
    /\ memories' = cleanupExpired(memories, config, now)
    /\ last' = Call("cleanupExpired", 0, FALSE, FALSE)
    /\ UNCHANGED <<config, nextId, now, timerOn>>

\* the setInterval callback of startCleanupTimer
TimerFires ==
    /\ timerOn
    /\ memories' = cleanupExpired(memories, config, now)
    /\ last' = Call("timer", 0, FALSE, FALSE)
    /\ UNCHANGED <<config, nextId, now, timerOn>>

\* the history is kept only under SpecHistory, the call on the stack only
\* under SpecSteps
NoHistory == UNCHANGED <<issued, imported, pending>>

Next ==
    \/ Tick /\ NoHistory
    \/ \E input \in AddInputs : Add(input[1], input[2]) /\ NoHistory
    \/ \E id \in Ids(memories) \cup {nextId}, input \in UpdateInputs :
          Update(id, input[1], input[2]) /\ NoHistory
    \/ \E id \in Ids(memories) \cup {nextId} : Delete(id) /\ NoHistory
    \/ \E input \in SearchInputs : Search(input[1], input[2]) /\ NoHistory
    \/ Clear /\ NoHistory
    \/ Export /\ NoHistory
    \/ \E jsonData \in ImportInputs : Import(jsonData) /\ NoHistory
    \/ Sweep /\ NoHistory
    \/ TimerFires /\ NoHistory

Spec == Init /\ [][Next]_vars

\* the same operations, add being called with unparseable timestamps
NextBadTime ==
    \/ Tick /\ NoHistory
    \/ \E input \in BadTimeAddInputs : Add(input[1], input[2]) /\ NoHistory
    \/ \E id \in Ids(memories) \cup {nextId}, input \in UpdateInputs :
          Update(id, input[1], input[2]) /\ NoHistory
    \/ \E id \in Ids(memories) \cup {nextId} : Delete(id) /\ NoHistory
    \/ \E input \in SearchInputs : Search(input[1], input[2]) /\ NoHistory
    \/ Clear /\ NoHistory
    \/ Export /\ NoHistory
    \/ \E jsonData \in ImportInputs : Import(jsonData) /\ NoHistory
    \/ Sweep /\ NoHistory
    \/ TimerFires /\ NoHistory

SpecBadTime == Init /\ [][NextBadTime]_vars

\* the same operations with the history of the ids kept
KeepIssued ==
    /\ issued' = IF last'.op = "add" /\ ~last'.threw /\ ~last'.merged
                 THEN issued \cup {last'.ret}
                 ELSE issued
    /\ imported' = imported
    /\ pending' = pending

NextHistory ==
    \/ Tick /\ NoHistory
    \/ \E input \in AddInputs : Add(input[1], input[2]) /\ KeepIssued
    \/ \E id \in Ids(memories) \cup {nextId}, input \in UpdateInputs :
          Update(id, input[1], input[2]) /\ NoHistory
    \/ \E id \in Ids(memories) \cup {nextId} : Delete(id) /\ NoHistory
    \/ Clear /\ issued' = {} /\ imported' = FALSE /\ pending' = pending
    \/ \E jsonData \in ImportInputs :
          Import(jsonData) /\ imported' = TRUE /\ issued' = issued /\ pending' = pending
    \/ Sweep /\ NoHistory

SpecHistory == Init /\ [][NextHistory]_vars

SearchByTags(tags, matchAll) ==
    /\ last' = Call("searchByTags", searchByTags(memories, tags, matchAll), FALSE, FALSE)
    /\ UNCHANGED <<memories, config, nextId, now, timerOn>>

\* the store used with tagged records
NextTags ==
    \/ \E input \in TagAddInputs : Add(input[1], input[2]) /\ NoHistory
    \/ \E id \in Ids(memories) \cup {nextId}, input \in UpdateInputs :
          Update(id, input[1], input[2]) /\ NoHistory
    \/ \E id \in Ids(memories) \cup {nextId} : Delete(id) /\ NoHistory
    \/ \E tags \in TagLists, matchAll \in BOOLEAN : SearchByTags(tags, matchAll) /\ NoHistory
    \/ Clear /\ NoHistory

SpecTags == Init /\ [][NextTags]_vars

(***************************************************************************)
(* Mem0.add taken statement by statement, with the timer of the sweep.     *)
(* add is synchronous: once called it is on the stack until it returns,    *)
(* and the event loop runs a setInterval callback only when the stack is   *)
(* empty.                                                                  *)
(***************************************************************************)
\* add up to the duplicate test: the id, the new Memory, findSimilar
AddBegin(content, metadata) ==
    /\ pending.pc = "idle"
    /\ nextId <= MaxId
    /\ LET alloc == AllocateId(nextId)
           memory == [MemoryCtor(alloc.id, content, metadata, now)
                         EXCEPT !.embeddings = Embed(content)]
       IN /\ nextId' = alloc.nextId
          /\ IF SearchThrows(memories)
             THEN /\ last' = Call("add", 0, TRUE, FALSE)
                  /\ pending' = pending
             ELSE /\ last' = last
                  /\ pending' = [pc |-> "decided", before |-> memories, nid |-> nextId,
                                 content |-> content, metadata |-> metadata,
                                 memory |-> memory,
                                 similar |-> findSimilar(memories, content, 1)]
    /\ UNCHANGED <<memories, config, now, timerOn, issued, imported>>

\* the merge into similar[0].memory, an object that may have left the Map, or
\* this.memories.set(id, memory)
AddInsert ==
    /\ pending.pc = "decided"
    /\ IF IsDuplicate(pending.similar, config)
       THEN LET existingId == pending.similar[1].id
            IN /\ memories' =
                     IF existingId \in Ids(memories)
                     THEN MapSet(memories, existingId,
                                 MergeInto(MapGet(memories, existingId),
                                           pending.content, pending.metadata, now))
                     ELSE memories
               /\ last' = Call("add", existingId, FALSE, TRUE)
               /\ pending' = NoCall
       ELSE /\ memories' = MapSet(memories, pending.memory.id, pending.memory)
            /\ last' = last
            /\ pending' = [pending EXCEPT !.pc = "inserted"]
    /\ UNCHANGED <<config, nextId, now, timerOn, issued, imported>>

\* the limit check and the return
AddLimit ==
    /\ pending.pc = "inserted"
    /\ memories' = IF Len(memories) > config.maxMemories
                   THEN evictOldest(memories) ELSE memories
    /\ last' = Call("add", pending.memory.id, FALSE, FALSE)
    /\ pending' = NoCall
    /\ UNCHANGED <<config, nextId, now, timerOn, issued, imported>>

\* a timer that could run its callback while a call is on the stack
TimerPreempts ==
    /\ TimerFires
    /\ UNCHANGED <<issued, imported, pending>>

\* the event loop runs the callback of setInterval when the stack is empty
TimerRuns ==
    /\ pending.pc = "idle"
    /\ TimerFires
    /\ UNCHANGED <<issued, imported, pending>>

NextSteps ==
    \/ pending.pc = "idle" /\ Tick /\ NoHistory
    \/ \E input \in AddInputs : AddBegin(input[1], input[2])
    \/ AddInsert
    \/ AddLimit
    \/ TimerRuns

SpecSteps == Init /\ [][NextSteps]_vars

(***************************************************************************)
(* Definitions the claims are stated with.                                 *)
(***************************************************************************)
\* the similarity of a text to the content of a record
ContentSimilarity(text, memory) ==
    cosineSimilarity(computeEmbedding(text), computeEmbedding(memory.content))

\* the records whose content is a best match of the text, scoring above 0
BestMatches(ms, text) ==
    {i \in 1..Len(ms) :
        /\ SimPositive(ContentSimilarity(text, ms[i]))
        /\ \A j \in 1..Len(ms) :
              ~SimGreater(ContentSimilarity(text, ms[j]), ContentSimilarity(text, ms[i]))}

\* the best match of the text scores above the merge threshold
HasNearDuplicate(ms, cfg, text) ==
    \E i \in BestMatches(ms, text) :
        SimAbove(ContentSimilarity(text, ms[i]), cfg.similarityThreshold)

\* the step is the call add(content, metadata)
AddStep(content, metadata) == last'.op = "add" /\ Add(content, metadata)

AddCompleted == last.op = "add" /\ ~last.threw
AddCreated == AddCompleted /\ ~last.merged
AddMerged == AddCompleted /\ last.merged

\* C1: an add of content whose best match among the existing records scores
\* above the merge threshold leaves the number of records and their ids as
\* they were and returns the id of that best match.
C1_NearDuplicateMerges ==
    [][\A input \in AddInputs :
          (AddStep(input[1], input[2]) /\ HasNearDuplicate(memories, config, input[1]))
          => /\ Len(memories') = Len(memories)
             /\ Ids(memories') = Ids(memories)
             /\ ~last'.threw
             /\ \E i \in BestMatches(memories, input[1]) : last'.ret = memories[i].id]_vars

\* C2: whenever an add call has completed, the store holds at most
\* config.maxMemories records.
C2_CountWithinMaximum == AddCompleted => Len(memories) <= config.maxMemories

\* C3: an add of content with no match above the merge threshold adds exactly
\* one record below the maximum, and otherwise leaves the count at the maximum.
C3_DistinctAddCounts ==
    [][\A input \in AddInputs :
          (AddStep(input[1], input[2]) /\ ~HasNearDuplicate(memories, config, input[1]))
          => Len(memories') = IF Len(memories) < config.maxMemories
                              THEN Len(memories) + 1
                              ELSE config.maxMemories]_vars

\* the timestamp of a record is the same instant as that of another
SameTime(a, b) ==
    ~a.nan /\ ~b.nan /\ a.ms = b.ms

\* C4: an add that creates a record in a full store removes exactly one record,
\* one whose timestamp no other record precedes, the first of these in
\* insertion order.
C4_EvictsOldest ==
    [][\A input \in BadTimeAddInputs :
          (/\ AddStep(input[1], input[2])
           /\ ~last'.threw /\ ~last'.merged
           /\ Len(memories) + 1 > config.maxMemories)
          => LET memory == [MemoryCtor(nextId, input[1], input[2], now)
                               EXCEPT !.embeddings = computeEmbedding(input[1])]
                 added == Append(memories, memory)
                 time(i) == DateParse(added[i].metadata.timestamp)
             IN \E victim \in 1..Len(added) :
                   /\ memories' = MapDelete(added, added[victim].id)
                   /\ Len(memories') = Len(added) - 1
                   /\ \A j \in 1..Len(added) : ~DateLess(time(j), time(victim))
                   /\ \A j \in 1..(victim - 1) : ~SameTime(time(j), time(victim))]_vars

UniqueIds(ms) == \A i, j \in 1..Len(ms) : i # j => ms[i].id # ms[j].id

\* C5 as claimed: between two clears, whatever else is called (import
\* included), an add that creates a record gives it an id no record was given
\* before and no record in the store has, and the ids in the store are distinct.
C5_IdNeverReused ==
    [][/\ UniqueIds(memories')
       /\ \A input \in AddInputs :
             (AddStep(input[1], input[2]) /\ ~last'.threw /\ ~last'.merged)
             => last'.ret \notin issued /\ last'.ret \notin Ids(memories)]_vars

\* C5 as amended: the same as long as import has not been called since the
\* store was constructed or last cleared.
C5_IdNeverReusedBeforeImport ==
    [][~imported'
       => /\ UniqueIds(memories')
          /\ \A input \in AddInputs :
                (AddStep(input[1], input[2]) /\ ~last'.threw /\ ~last'.merged)
                => last'.ret \notin issued /\ last'.ret \notin Ids(memories)]_vars

\* an add has created a record after an earlier record was removed
C5_Witness ==
    /\ AddCreated
    /\ ~imported
    /\ last.ret \in Ids(memories)
    /\ \E id \in issued : id \notin Ids(memories)

\* C6: every record's cached vector is the vector of its content.
C6_VectorsFresh ==
    \A i \in 1..Len(memories) :
        /\ ~IsNullEmbedding(memories[i].embeddings)
        /\ memories[i].embeddings = computeEmbedding(memories[i].content)

\* C7: search, findSimilar and add complete without raising in every store
\* state the operations reach.
C7_SearchAndAddTotal == last.op \in {"search", "add"} => ~last.threw

\* C8: update, a merging add and the expiry sweep leave the timestamp of every
\* record they keep as it was.
C8_TimestampFixed ==
    [][(\/ last'.op \in {"update", "cleanupExpired", "timer"}
        \/ (last'.op = "add" /\ last'.merged))
       => \A i \in 1..Len(memories') :
             memories'[i].id \in Ids(memories)
             => memories'[i].metadata.timestamp
                   = MapGet(memories, memories'[i].id).metadata.timestamp]_vars

\* C9: an import that returns false leaves the records, the configuration and
\* the id counter as they were.
C9_FailedImportChangesNothing ==
    [][(last'.op = "import" /\ last'.ret = FALSE)
       => memories' = memories /\ config' = config /\ nextId' = nextId]_vars

UpdateStep(id, content, metadata) == last'.op = "update" /\ Update(id, content, metadata)

\* C11: update on an id that is not in the store raises and leaves the records,
\* the configuration and the id counter as they were; on an id that is in the
\* store it keeps the number of records, their order and their ids, leaves
\* every other record as it was, even one whose content is the new content,
\* and changes of the record itself only the content, the metadata and the
\* vector.
C11_UpdateTouchesOneRecord ==
    [][\A id \in Ids(memories) \cup {nextId}, input \in UpdateInputs :
          UpdateStep(id, input[1], input[2])
          => /\ config' = config
             /\ nextId' = nextId
             /\ IF id \notin Ids(memories)
                THEN last'.threw /\ memories' = memories
                ELSE /\ ~last'.threw
                     /\ Len(memories') = Len(memories)
                     /\ \A i \in 1..Len(memories) :
                           /\ memories'[i].id = memories[i].id
                           /\ memories'[i].tags = memories[i].tags
                           /\ memories[i].id # id => memories'[i] = memories[i]
                     /\ get(memories', id).content = input[1]
                     /\ get(memories', id).embeddings = computeEmbedding(input[1])]_vars

\* update has rewritten a record with the content of another record, which is
\* still there
C11_Witness ==
    /\ last.op = "update"
    /\ ~last.threw
    /\ \E i \in 1..Len(memories) :
          /\ memories[i].id # last.ret
          /\ memories[i].content = get(memories, last.ret).content

\* the step is the call delete(id)
DeleteStep(id) == last'.op = "delete" /\ Delete(id)

\* C12: delete(id) does not raise, returns true exactly when the id was in the
\* store, removes that record and no other, and get(id) then returns null; on
\* an id that is not in the store it returns false and changes nothing.
C12_DeleteRemovesOne ==
    [][\A id \in Ids(memories) \cup {nextId} :
          DeleteStep(id)
          => /\ ~last'.threw
             /\ last'.ret = (id \in Ids(memories))
             /\ get(memories', id) = Null
             /\ config' = config
             /\ nextId' = nextId
             /\ IF id \in Ids(memories)
                THEN /\ Len(memories') = Len(memories) - 1
                     /\ \A i \in 1..Len(memories) :
                           memories[i].id # id
                           => get(memories', memories[i].id) = memories[i]
                ELSE memories' = memories]_vars

\* delete has returned true and another record is still in the store
C12_Witness ==
    /\ last.op = "delete"
    /\ last.ret = TRUE
    /\ Len(memories) >= 1

\* the step is an expiry sweep, called directly or by the timer
SweepStep == last'.op \in {"cleanupExpired", "timer"} /\ (Sweep \/ TimerFires)

\* the record's timestamp is an instant strictly before day t
StrictlyBefore(memory, t) ==
    memory.metadata.timestamp.valid /\ memory.metadata.timestamp.t < t

\* C13: an expiry sweep removes exactly the records whose timestamp is strictly
\* before now minus expireAfterDays days, keeps every other record as it is
\* and in its place, and leaves the configuration and the id counter as they
\* were; with autoExpire off it removes nothing.
C13_SweepRemovesExpired ==
    [][SweepStep
       => LET cutoff == now - config.expireAfterDays
              expired == IF config.autoExpire
                         THEN {i \in 1..Len(memories) : StrictlyBefore(memories[i], cutoff)}
                         ELSE {}
          IN /\ config' = config
             /\ nextId' = nextId
             /\ Len(memories') = Len(memories) - Cardinality(expired)
             /\ \A i \in 1..Len(memories) :
                   IF i \in expired
                   THEN get(memories', memories[i].id) = Null
                   ELSE memories'[i - Cardinality({j \in expired : j < i})] = memories[i]]_vars

\* a sweep has run on the second day, after a merge of that day, and has kept
\* the record, whose timestamp is the cutoff itself
C13_Witness ==
    /\ last.op \in {"cleanupExpired", "timer"}
    /\ config.autoExpire
    /\ now = 2
    /\ \E i \in 1..Len(memories) :
          /\ memories[i].metadata.timestamp = ToISOString(now - config.expireAfterDays)
          /\ HasKey(memories[i].metadata, "lastUpdated")
          /\ memories[i].metadata.lastUpdated = ToISOString(now)

\* the step is the call clear()
ClearStep == last'.op = "clear" /\ Clear

\* C14: clear() leaves no record, sets the id counter to its first value, so
\* that the next add creates the record of the first id, and leaves the
\* configuration as it was; called on a store that was just cleared it changes
\* nothing.
C14_ClearResets ==
    [][ClearStep
       => /\ memories' = <<>>
          /\ nextId' = FirstId
          /\ config' = config
          /\ \A input \in AddInputs :
                LET out == AddOutcome(memories', config', nextId', input[1], input[2], now')
                IN ~out.threw /\ ~out.merged /\ out.ret = FirstId
          /\ last.op = "clear"
             => memories' = memories /\ nextId' = nextId /\ last' = last]_vars

\* clear has run on a store whose configuration only an import gives, an
\* import that had set the counter past its first value
C14_Witness ==
    /\ last.op = "clear"
    /\ config.maxMemories = NoMemoriesDoc.data.config.maxMemories
    /\ ~config.autoExpire
    /\ memories = <<>>
    /\ nextId = FirstId

\* the result lists the records of positive similarity to the query, best
\* first, equal scores in insertion order, cut to the first limit entries
IsRanking(result, ms, query, limit) ==
    LET sim == [i \in 1..Len(ms) |-> ContentSimilarity(query, ms[i])]
        positive == {i \in 1..Len(ms) : SimPositive(sim[i])}
        \* record i comes before record j
        Before(i, j) == SimGreater(sim[i], sim[j])
                           \/ (~SimGreater(sim[j], sim[i]) /\ i < j)
        rank(i) == 1 + Cardinality({j \in positive : Before(j, i)})
    IN /\ Len(result) = IF Cardinality(positive) < limit
                        THEN Cardinality(positive) ELSE limit
       /\ \A i \in positive :
             rank(i) <= limit
             => /\ result[rank(i)].id = ms[i].id
                /\ result[rank(i)].similarity = sim[i]
       /\ tokenize(query) = <<>> => result = <<>>

\* C15: a call of search(query, limit) returns, and what it returns are the
\* records of strictly positive similarity to the query, by descending
\* similarity, equal scores in insertion order, cut to the first limit entries
\* (none for a query without tokens); search leaves the store as it was, so
\* the store after the call is the store that was searched.
C15_SearchRanks ==
    last.op = "search"
    => /\ ~last.threw
       /\ \E input \in SearchInputs : IsRanking(last.ret, memories, input[1], input[2])

TagSet(tags) == {tags[k] : k \in 1..Len(tags)}

\* the result lists, in the order of the collection, the records whose tags
\* hold every requested tag (matchAll) or at least one of them
IsTagSelection(result, ms, tags, matchAll) ==
    LET wanted == {i \in 1..Len(ms) :
                      IF matchAll
                      THEN TagSet(tags) \subseteq TagSet(ms[i].tags)
                      ELSE TagSet(tags) \cap TagSet(ms[i].tags) # {}}
    IN /\ Len(result) = Cardinality(wanted)
       /\ \A i \in wanted : result[Cardinality({j \in wanted : j <= i})] = ms[i]

\* C16: in every store the operations reach, searchByTags(tags, matchAll)
\* returns, in the order of the collection, the records whose tags hold every
\* requested tag when matchAll is true, and the records whose tags hold at
\* least one requested tag when it is false; and what the latest call of
\* searchByTags returned is such a selection from the store it left unchanged.
C16_TagSearchMatches ==
    /\ \A tags \in TagLists, matchAll \in BOOLEAN :
          IsTagSelection(searchByTags(memories, tags, matchAll), memories, tags, matchAll)
    /\ last.op = "searchByTags"
       => \E tags \in TagLists, matchAll \in BOOLEAN :
             IsTagSelection(last.ret, memories, tags, matchAll)

\* a tag search has returned the first of two tagged records and not the second
C16_Witness ==
    /\ last.op = "searchByTags"
    /\ Len(memories) = 2
    /\ memories[2].tags = <<"food">>
    /\ Len(last.ret) = 1
    /\ last.ret[1].tags = <<"food", "italian">>

\* C17: an add that merges into an existing record leaves the id counter as it
\* was, and an add that creates a record advances it by one.
C17_CounterOnlyOnCreate ==
    [][\A input \in AddInputs :
          (AddStep(input[1], input[2]) /\ ~last'.threw)
          => nextId' = IF last'.merged THEN nextId ELSE nextId + 1]_vars

\* C20: when an add call has returned an id, get of that id returns a record
\* of the store.
C20_AddedIsPresent ==
    AddCompleted => get(memories, last.ret) # Null

\* C18: the expiry sweep of the timer never runs between the statements of
\* a call of add, so that whenever a call of add returns, the store and the
\* result are what add gives when run as a whole on the store it was called on.
C18_SweepSerialized ==
    [][/\ (last'.op = "timer" /\ last' # last) => pending.pc = "idle"
       /\ (pending.pc # "idle" /\ pending'.pc = "idle")
          => LET out == AddOutcome(pending.before, config, pending.nid,
                                   pending.content, pending.metadata, now)
             IN /\ memories' = out.memories
                /\ nextId' = out.nextId
                /\ last' = Call("add", out.ret, out.threw, out.merged)]_vars

\* the sweep of the timer has removed the record a call of add had created
\* statement by statement
C18_Witness ==
    /\ last.op = "timer"
    /\ pending.pc = "idle"
    /\ memories = <<>>
    /\ nextId > FirstId

\* C19: while the timer of the expiry sweep is running, the store has an
\* operation that stops it.
C19_TeardownStopsTimer == timerOn => ENABLED (Next /\ ~timerOn')

\* the ids of the records a tag search returns
TagSearchIds(ms, tags, matchAll) ==
    LET result == searchByTags(ms, tags, matchAll)
    IN [k \in 1..Len(result) |-> result[k].id]

\* the step leaves the tags of every record, and so the result of every tag
\* search, as they were
TagsKept ==
    /\ Len(memories') = Len(memories)
    /\ \A i \in 1..Len(memories) : memories'[i].tags = memories[i].tags
    /\ \A tags \in TagLists, matchAll \in BOOLEAN :
          TagSearchIds(memories', tags, matchAll) = TagSearchIds(memories, tags, matchAll)

\* C21: an update of a record and an add that merges into a record leave the
\* tags of every record as they were, also when the metadata they pass has a
\* tags entry, which replaces metadata.tags only; every tag search returns the
\* same records before and after.
C21_TagsFixedAtCreation ==
    [][/\ \A id \in Ids(memories), input \in UpdateInputs :
             UpdateStep(id, input[1], input[2])
             => /\ TagsKept
                /\ HasKey(input[2], "tags")
                   => get(memories', id).metadata.tags = input[2].tags
       /\ \A input \in TagAddInputs :
             (AddStep(input[1], input[2]) /\ last'.merged)
             => /\ TagsKept
                /\ HasKey(input[2], "tags")
                   => get(memories', last'.ret).metadata.tags = input[2].tags]_vars

\* an add has merged into a record whose tags are not the tags it passed
C21_Witness ==
    /\ AddMerged
    /\ get(memories, last.ret).tags = <<"food", "italian">>
    /\ get(memories, last.ret).metadata.tags = <<"food">>

====
